---- MODULE Spec2Model ----
(***************************************************************************)
(* Model of the withings client.                                           *)
(*                                                                         *)
(* Spec, SpecOps, SpecAlias and FairSpec model the auto-refreshing         *)
(* AuthorizedUser.  One AuthorizedUser (fields c, t and the embedded       *)
(* sync.Mutex) is shared by the goroutines in Callers.  Each goroutine     *)
(* repeatedly calls a dispatcher (AuthorizedUser.GetMeasure and its seven  *)
(* copies); the dispatcher is modelled statement by statement so that      *)
(* every interleaving the Go scheduler allows is a behaviour of Spec.      *)
(*                                                                         *)
(* SpecClient models NewClient and Client.GetUserAuthRequestURL, SpecQuery *)
(* the UpdateQuery methods of the params and SpecMeasure the helpers of    *)
(* Measure and MeasureGroups; these are functions of their arguments, which*)
(* the initial states draw.                                                *)
(*                                                                         *)
(* A Go pointer is an optional value: <<>> is nil and <<v>> points to v.   *)
(* A Go string that is taken apart is the sequence of its characters.      *)
(* Time is in seconds.                                                     *)
(***************************************************************************)
EXTENDS Integers, Sequences, FiniteSets, TLC

\* ------------------------------------------------------------------ bounds

\* Last instant of the wall clock that is explored.
MaxNow == 20

\* Dispatcher invocations of one run, all goroutines together.
MaxCalls == 2

\* Cap on the RefreshAccessToken calls of one run.
MaxRefresh == 2

\* Options passed to one NewClient call.
MaxOpts == 2

\* Scopes passed to one GetUserAuthRequestURL call.
MaxScopes == 2

\* Groups of one MeasureGroups value.
MaxGroups == 2

\* ------------------------------------------------------- program constants

\* authorized_user.go:31   a.t.ExpiresAt.Add(-10 * time.Second)
Margin == 10

\* --------------------------------------------------------------- universe

\* The goroutines that share the AuthorizedUser.
Callers == {"g1", "g2"}

\* Instants the clock takes (a grid of five seconds).
Instants == {x \in 0..MaxNow : x % 5 = 0}

\* ExpiresAt of the token handed to NewAuthorizedUser.
InitExpiresAt == {10, 30}

\* expires_in values the token endpoint answers with.
ExpiresInSet == {5, 30}

Nil == <<>>
Ptr(v) == <<v>>
Deref(p) == p[1]

NoErr == "nil"
RefreshErr == "refresh failed"
APIErr == "api returned an error"
TransportErr == "failed to execute request"
BuildErr == "failed to build http request"
ReadErr == "failed to read body of request"
ParseErr == "failed to parse response"

\* What happens to one Client fetch: the step that fails ("build": request
\* construction, "do": HttpClient.Do, "read": io.ReadAll, "parse":
\* json.Unmarshal) or "ok", and the status field of the parsed response.
FetchOutcomes ==
    {[stage |-> s, status |-> 0] : s \in {"do", "read", "parse"}}
        \cup {[stage |-> "ok", status |-> x] : x \in {0, 401}}
BuildFailure == [stage |-> "build", status |-> 0]
NoOutcome == [stage |-> "none", status |-> 0]

\* The dispatchers of AuthorizedUser; each calls the Client fetch ClientMethod.
Ops == {"GetMeasure", "GetIntraDayActivity", "GetActivity", "GetHeartList",
        "GetHeartHighFrequencyData", "GetSleep", "GetSleepSummary", "GetWorkout"}

\* ------------------------------------------------------------------ state

VARIABLES
    now,          \* time.Now()
    t,            \* AuthorizedUser.t, the token the session currently holds
    mutex,        \* holder of the embedded sync.Mutex, or "free"
    issued,       \* number of tokens the token endpoint has issued so far
    pc,           \* position of each goroutine in the dispatcher
    calls,        \* invocations each goroutine has started
    tokenResp,    \* local tokenResp of checkToken / the dispatcher (pointer)
    err,          \* local err of checkToken
    arg,          \* token the in-flight RefreshAccessToken was called with
    used,         \* token passed by value to the Client fetch (pointer, nil = none)
    ret,          \* the triple the last invocation returned
    seen,         \* token the expiry check of this invocation read
    seenNow,      \* time.Now() the expiry check of this invocation read
    startT,       \* session token when this invocation began
    nRefresh,     \* RefreshAccessToken calls made by this invocation
    nFetch,       \* Client fetch calls made by this invocation
    interfered,   \* another goroutine replaced the token since this invocation
                  \* began or since this goroutine itself last replaced it
    refreshCalls, \* RefreshAccessToken calls of all goroutines
    lastFailed,   \* the latest RefreshAccessToken call of the session failed
    op,           \* the dispatcher each goroutine is in
    fetched,      \* the Client fetch this invocation called, or "none"
    http,         \* what happened to the Client fetch of this invocation
    nNet,         \* HTTP requests this invocation's Client fetch has sent
    given,        \* the caller's own AccessToken, passed to NewAuthorizedUser
    opts,         \* the options passed to NewClient
    client,       \* the Client NewClient returned (pointer, nil before the call)
    authReq,      \* the latest GetUserAuthRequestURL call: arguments and results
    param,        \* a GetMeasureParam / GetWorkoutParam
    query,        \* the latest UpdateQuery call on param and what it returned
    groups,       \* a MeasureGroups value, as decoded from a GetMeasureResp
    conv          \* the latest call of a measure helper and what it returned

\* The variables of the auto-refreshing session.
sessionVars == <<now, t, mutex, issued, pc, calls, tokenResp, err, arg, used,
                 ret, seen, seenNow, startT, nRefresh, nFetch, interfered,
                 refreshCalls, lastFailed, op, fetched, http, nNet>>

\* The variables of the client construction, the request builders and the
\* measure helpers, and the caller's copy of the initial token.
libVars == <<given, opts, client, authReq, param, query, groups, conv>>

vars == <<sessionVars, libVars>>

\* The variables of the Client fetch and of the choice of dispatcher.
fetchVars == <<op, fetched, http, nNet>>

\* ----------------------------------------------------------------- tokens

\* AccessToken: the access and refresh strings are numbered, "A1"/"R1" is 1.
Token(id, exp) == [AccessToken |-> id, RefreshToken |-> id, ExpiresAt |-> exp]

NoRet == [resp |-> Nil, token |-> Nil, err |-> NoErr]

\* authorized_user.go:31   expAt := a.t.ExpiresAt.Add(-10 * time.Second)
ExpAtNoMargin(tok) == tok.ExpiresAt
ExpAt(tok) == tok.ExpiresAt - Margin

\* authorized_user.go:33   time.Now().After(expAt)
NotBefore(n, expAt) == n >= expAt
Before(n, expAt) == n < expAt
After(n, expAt) == n > expAt

NeedsRefresh(tok, n) == After(n, ExpAt(tok))

\* ---------------------------------------------------------------- actions

InitSession ==
    /\ now = 0
    /\ \E e \in InitExpiresAt : t = Token(1, e)
    /\ mutex = "free"
    /\ issued = 1
    /\ pc = [p \in Callers |-> "idle"]
    /\ calls = [p \in Callers |-> 0]
    /\ tokenResp = [p \in Callers |-> Nil]
    /\ err = [p \in Callers |-> NoErr]
    /\ arg = [p \in Callers |-> Nil]
    /\ used = [p \in Callers |-> Nil]
    /\ ret = [p \in Callers |-> NoRet]
    /\ seen = [p \in Callers |-> Nil]
    /\ seenNow = [p \in Callers |-> 0]
    /\ startT = [p \in Callers |-> Nil]
    /\ nRefresh = [p \in Callers |-> 0]
    /\ nFetch = [p \in Callers |-> 0]
    /\ interfered = [p \in Callers |-> FALSE]
    /\ refreshCalls = 0
    /\ lastFailed = FALSE
    /\ op = [p \in Callers |-> "GetMeasure"]
    /\ fetched = [p \in Callers |-> "none"]
    /\ http = [p \in Callers |-> NoOutcome]
    /\ nNet = [p \in Callers |-> 0]
    /\ given = t

\* No Client call, request builder or measure helper is in use.
InitLibIdle ==
    /\ opts = <<>>
    /\ client = Nil
    /\ authReq = Nil
    /\ param = Nil
    /\ query = Nil
    /\ groups = <<>>
    /\ conv = Nil

Init == InitSession /\ InitLibIdle

\* The wall clock advances between any two statements.
Tick ==
    /\ \E n \in Instants : n > now /\ now' = n
    /\ UNCHANGED <<t, mutex, issued, pc, calls, tokenResp, err, arg, used, ret,
                   seen, seenNow, startT, nRefresh, nFetch, interfered,
                   refreshCalls, lastFailed, fetchVars>>
    /\ UNCHANGED libVars

RECURSIVE Sum(_, _)
Sum(f, S) == IF S = {} THEN 0 ELSE LET x == CHOOSE y \in S : TRUE IN f[x] + Sum(f, S \ {x})

\* Invocations started so far.
TotalCalls == Sum(calls, Callers)

\* A goroutine calls the dispatcher o, which calls checkToken first.
InvokeOp(p, o) ==
    /\ pc[p] \in {"idle", "done"}
    /\ TotalCalls < MaxCalls
    /\ calls' = [calls EXCEPT ![p] = @ + 1]
    /\ pc' = [pc EXCEPT ![p] = "lock"]
    /\ tokenResp' = [tokenResp EXCEPT ![p] = Nil]
    /\ err' = [err EXCEPT ![p] = NoErr]
    /\ arg' = [arg EXCEPT ![p] = Nil]
    /\ used' = [used EXCEPT ![p] = Nil]
    /\ ret' = [ret EXCEPT ![p] = NoRet]
    /\ seen' = [seen EXCEPT ![p] = Nil]
    /\ seenNow' = [seenNow EXCEPT ![p] = 0]
    /\ startT' = [startT EXCEPT ![p] = Ptr(t)]
    /\ nRefresh' = [nRefresh EXCEPT ![p] = 0]
    /\ nFetch' = [nFetch EXCEPT ![p] = 0]
    /\ interfered' = [interfered EXCEPT ![p] = FALSE]
    /\ op' = [op EXCEPT ![p] = o]
    /\ fetched' = [fetched EXCEPT ![p] = "none"]
    /\ http' = [http EXCEPT ![p] = NoOutcome]
    /\ nNet' = [nNet EXCEPT ![p] = 0]
    /\ UNCHANGED <<now, t, mutex, issued, refreshCalls, lastFailed>>
    /\ UNCHANGED libVars

\* AuthorizedUser.GetMeasure is called.
Invoke(p) == InvokeOp(p, "GetMeasure")

\* Any of the eight dispatchers is called.
InvokeAny(p) == \E o \in Ops : InvokeOp(p, o)

\* sync.Mutex.Lock blocks until the mutex is free.
NoMutex(p) == TRUE
MutexFree(p) == mutex = "free"

\* a.Lock()
Lock(p) ==
    /\ pc[p] = "lock"
    /\ MutexFree(p)
    /\ mutex' = p
    /\ pc' = [pc EXCEPT ![p] = "check"]
    /\ UNCHANGED <<now, t, issued, calls, tokenResp, err, arg, used, ret, seen,
                   seenNow, startT, nRefresh, nFetch, interfered, refreshCalls,
                   lastFailed, fetchVars>>
    /\ UNCHANGED libVars

\* expAt := ...; if time.Now().After(expAt) { a.c.RefreshAccessToken(*a.t) ... }
\* return nil, nil
Check(p) ==
    /\ pc[p] = "check"
    /\ seen' = [seen EXCEPT ![p] = Ptr(t)]
    /\ seenNow' = [seenNow EXCEPT ![p] = now]
    /\ IF NeedsRefresh(t, now)
       THEN /\ refreshCalls < MaxRefresh
            /\ refreshCalls' = refreshCalls + 1
            /\ nRefresh' = [nRefresh EXCEPT ![p] = @ + 1]
            /\ arg' = [arg EXCEPT ![p] = Ptr(t)]
            /\ pc' = [pc EXCEPT ![p] = "refresh"]
            /\ UNCHANGED <<tokenResp, err>>
       ELSE /\ tokenResp' = [tokenResp EXCEPT ![p] = Nil]
            /\ err' = [err EXCEPT ![p] = NoErr]
            /\ pc' = [pc EXCEPT ![p] = "unlock"]
            /\ UNCHANGED <<refreshCalls, nRefresh, arg>>
    /\ UNCHANGED <<now, t, mutex, issued, calls, used, ret, startT, nFetch,
                   interfered, lastFailed, fetchVars>>
    /\ UNCHANGED libVars

\* The token endpoint answers with a new access/refresh pair.
RefreshAccessTokenOk(p, expiresIn) ==
    /\ issued' = issued + 1
    /\ tokenResp' = [tokenResp EXCEPT ![p] = Ptr(Token(issued + 1, now + expiresIn))]
    /\ err' = [err EXCEPT ![p] = NoErr]

\* The token endpoint cannot be reached or rejects the refresh token.
RefreshAccessTokenFail(p) ==
    /\ tokenResp' = [tokenResp EXCEPT ![p] = Nil]
    /\ err' = [err EXCEPT ![p] = RefreshErr]
    /\ UNCHANGED issued

\* tokenResp, err := a.c.RefreshAccessToken(*a.t) returns with err == nil
RefreshOk(p) ==
    /\ pc[p] = "refresh"
    /\ \E e \in ExpiresInSet : RefreshAccessTokenOk(p, e)
    /\ pc' = [pc EXCEPT ![p] = "write"]
    /\ lastFailed' = FALSE
    /\ UNCHANGED <<now, t, mutex, calls, arg, used, ret, seen, seenNow, startT,
                   nRefresh, nFetch, interfered, refreshCalls, fetchVars>>
    /\ UNCHANGED libVars

\* The session token after a failed refresh.
FailedKeepsZero(p) == Token(0, 0)
FailedKeeps(p) == t

\* Where checkToken continues after a failed refresh: it returns (the
\* deferred a.Unlock() runs), it does not go back to the expiry check.
RetryAfterFailedRefresh(p) == "check"
AfterFailedRefresh(p) == "unlock"

\* tokenResp, err := a.c.RefreshAccessToken(*a.t) returns with err != nil;
\* return tokenResp, err
RefreshFail(p) ==
    /\ pc[p] = "refresh"
    /\ RefreshAccessTokenFail(p)
    /\ t' = FailedKeeps(p)
    /\ pc' = [pc EXCEPT ![p] = AfterFailedRefresh(p)]
    /\ lastFailed' = TRUE
    /\ UNCHANGED <<now, mutex, calls, arg, used, ret, seen, seenNow, startT,
                   nRefresh, nFetch, interfered, refreshCalls, fetchVars>>
    /\ UNCHANGED libVars

\* The token stored by a successful refresh.
StoredOld(p) == t
Stored(p) == Deref(tokenResp[p])

\* a.t = &tokenResp.AccessToken; return tokenResp, nil
Write(p) ==
    /\ pc[p] = "write"
    /\ t' = Stored(p)
    /\ interfered' = [q \in Callers |-> q # p]
    /\ pc' = [pc EXCEPT ![p] = "unlock"]
    /\ UNCHANGED <<now, mutex, issued, calls, tokenResp, err, arg, used, ret,
                   seen, seenNow, startT, nRefresh, nFetch, refreshCalls,
                   lastFailed, fetchVars>>
    /\ UNCHANGED libVars

\* The dispatcher's test of checkToken's error:  if err != nil
IgnoresError(p) == FALSE
Aborts(p) == err[p] # NoErr

\* The holder of the mutex once the deferred a.Unlock() has run: nobody,
\* on every path out of checkToken.
KeptOnError(p) == IF err[p] # NoErr THEN p ELSE "free"
Released(p) == "free"

\* defer a.Unlock(), then the dispatcher's  if err != nil { return nil, nil, err }
Unlock(p) ==
    /\ pc[p] = "unlock"
    /\ mutex' = Released(p)
    /\ IF Aborts(p)
       THEN /\ ret' = [ret EXCEPT ![p] = [resp |-> Nil, token |-> Nil, err |-> err[p]]]
            /\ pc' = [pc EXCEPT ![p] = "done"]
       ELSE /\ pc' = [pc EXCEPT ![p] = "read"]
            /\ UNCHANGED ret
    /\ UNCHANGED <<now, t, issued, calls, tokenResp, err, arg, used, seen,
                   seenNow, startT, nRefresh, nFetch, interfered, refreshCalls,
                   lastFailed, fetchVars>>
    /\ UNCHANGED libVars

\* The values the unsynchronised read *a.t can yield: the pointer in a.t, or,
\* when another goroutine is at its store a.t = ..., the pointer being stored
\* (a racing read of a word observes one of the two writes).
ReadValues(p) ==
    {t} \cup {Deref(tokenResp[q]) : q \in {r \in Callers \ {p} : pc[r] = "write"}}

\* The Client fetch each dispatcher calls (authorized_user.go lines 53, 70,
\* 87, 104, 121, 138, 155 and 172).
\* The value names the method of Client, a.c.GetMeasure is "GetMeasure".
ClientMethodCopied(o) ==
    IF o = "GetSleepSummary" THEN "GetSleep" ELSE o
ClientMethod(o) ==
    CASE o = "GetMeasure" -> "GetMeasure"
      [] o = "GetIntraDayActivity" -> "GetIntraDayActivity"
      [] o = "GetActivity" -> "GetActivity"
      [] o = "GetHeartList" -> "GetHeartList"
      [] o = "GetHeartHighFrequencyData" -> "GetHeartHighFrequencyData"
      [] o = "GetSleep" -> "GetSleep"
      [] o = "GetSleepSummary" -> "GetSleepSummary"
      [] o = "GetWorkout" -> "GetWorkout"

\* What a Client fetch returns, <<resp, err>>, for what happened to it.
ClientFetchNoStatusCheck(o) ==
    IF o.stage = "ok" THEN <<Ptr([Status |-> o.status]), NoErr>> ELSE <<Nil, TransportErr>>
ClientFetch(o) ==
    CASE o.stage = "build" -> <<Nil, BuildErr>>
      [] o.stage = "do" -> <<Nil, TransportErr>>
      [] o.stage = "read" -> <<Nil, ReadErr>>
      [] o.stage = "parse" -> <<Nil, ParseErr>>
      [] o.stage = "ok" ->
            IF o.status = 0
            THEN <<Ptr([Status |-> 0]), NoErr>>
            ELSE <<Ptr([Status |-> o.status]), APIErr>>

\* The updated token the dispatcher reports.
ReportedNil(p) == Nil
Reported(p) == IF tokenResp[p] # Nil THEN tokenResp[p] ELSE Nil

\* if tokenResp != nil { return resp, &tokenResp.AccessToken, err }
\* return resp, nil, err
ReturnNoTokenOnError(p, r) ==
    ret' = [ret EXCEPT ![p] = [resp |-> r[1],
                               token |-> IF r[2] # NoErr THEN Nil ELSE Reported(p),
                               err |-> r[2]]]
Return(p, r) ==
    ret' = [ret EXCEPT ![p] = [resp |-> r[1], token |-> Reported(p), err |-> r[2]]]

\* HTTP requests a Client fetch has sent once its request is built, or once
\* building it has failed.
SendsAnyway(built) == 1
Sent(built) == IF built THEN 1 ELSE 0

\* resp, err := a.c.GetMeasure(ctx, *a.t, param): the argument *a.t is read,
\* the Client fetch is entered and builds its request.  When that fails (a
\* nil ctx) the fetch returns at once, else the request is sent.
Read(p) ==
    /\ pc[p] = "read"
    /\ \E v \in ReadValues(p) : used' = [used EXCEPT ![p] = Ptr(v)]
    /\ nFetch' = [nFetch EXCEPT ![p] = @ + 1]
    /\ fetched' = [fetched EXCEPT ![p] = ClientMethod(op[p])]
    /\ \E built \in BOOLEAN :
          /\ nNet' = [nNet EXCEPT ![p] = @ + Sent(built)]
          /\ IF built
             THEN /\ pc' = [pc EXCEPT ![p] = "fetch"]
                  /\ UNCHANGED <<ret, http>>
             ELSE /\ http' = [http EXCEPT ![p] = BuildFailure]
                  /\ Return(p, ClientFetch(BuildFailure))
                  /\ pc' = [pc EXCEPT ![p] = "done"]
    /\ UNCHANGED <<now, t, mutex, issued, calls, tokenResp, err, arg, seen,
                   seenNow, startT, nRefresh, interfered, refreshCalls,
                   lastFailed, op>>
    /\ UNCHANGED libVars

\* Where the dispatcher continues when the Client fetch has returned err e:
\* it returns, whatever e is.
RetriesFetch(p, e) == IF e # NoErr THEN "read" ELSE "done"
AfterFetch(p, e) == "done"

\* The session token once the Client fetch has returned err e.
DroppedOnError(p, e) == IF e # NoErr THEN Token(0, 0) ELSE t
TokenAfterFetch(p, e) == t

\* c.HttpClient.Do returns; the Client fetch reads and parses the response and
\* returns; the dispatcher returns.
FetchReturn(p) ==
    /\ pc[p] = "fetch"
    /\ \E o \in FetchOutcomes :
          /\ http' = [http EXCEPT ![p] = o]
          /\ Return(p, ClientFetch(o))
          /\ pc' = [pc EXCEPT ![p] = AfterFetch(p, ClientFetch(o)[2])]
          /\ t' = TokenAfterFetch(p, ClientFetch(o)[2])
    /\ UNCHANGED <<now, mutex, issued, calls, tokenResp, err, arg, used, seen,
                   seenNow, startT, nRefresh, nFetch, interfered, refreshCalls,
                   lastFailed, op, fetched, nNet>>
    /\ UNCHANGED libVars

Next ==
    \/ Tick
    \/ \E p \in Callers : Invoke(p)
    \/ \E p \in Callers : Lock(p)
    \/ \E p \in Callers : Check(p)
    \/ \E p \in Callers : RefreshOk(p)
    \/ \E p \in Callers : RefreshFail(p)
    \/ \E p \in Callers : Write(p)
    \/ \E p \in Callers : Unlock(p)
    \/ \E p \in Callers : Read(p)
    \/ \E p \in Callers : FetchReturn(p)

Spec == Init /\ [][Next]_vars

\* A step of goroutine p inside a dispatcher, from a.Lock() to the return.
Step(p) ==
    \/ Lock(p)
    \/ Check(p)
    \/ RefreshOk(p)
    \/ RefreshFail(p)
    \/ Write(p)
    \/ Unlock(p)
    \/ Read(p)
    \/ FetchReturn(p)

\* Spec with the scheduling the claim of termination is made under: a
\* goroutine inside a dispatcher that can take its next step eventually takes
\* it; every RefreshAccessToken call and every Client fetch returns (these
\* are steps too); a goroutine waiting in a.Lock() gets the mutex once it
\* stays free.  Nothing obliges a caller to call a dispatcher, nor the clock
\* to advance.
Fairness == \A p \in Callers : WF_vars(Step(p))

FairSpec == Spec /\ Fairness

\* One goroutine calls the eight dispatchers, one after the other.
NextOps ==
    \/ Tick
    \/ InvokeAny("g1")
    \/ Lock("g1")
    \/ Check("g1")
    \/ RefreshOk("g1")
    \/ RefreshFail("g1")
    \/ Write("g1")
    \/ Unlock("g1")
    \/ Read("g1")
    \/ FetchReturn("g1")

SpecOps == Init /\ [][NextOps]_vars

\* The values a caller writes to the ExpiresAt of an AccessToken it holds.
CallerExpiresAt == {0, 100}

\* The dispatcher returned &tokenResp.AccessToken, the address that
\* checkToken stored in a.t: the token the caller of p holds is the stored
\* token itself for as long as no later refresh has replaced it.
SameObject(p) == t.AccessToken = Deref(ret[p].token).AccessToken

\* The caller writes to its own AccessToken variable, the one it passed (by
\* value) to NewAuthorizedUser: a.t points to the copy, which stays as it is.
CallerWritesGiven ==
    /\ \E e \in CallerExpiresAt : e # given.ExpiresAt /\ given' = [given EXCEPT !.ExpiresAt = e]
    /\ UNCHANGED <<sessionVars, opts, client, authReq, param, query, groups, conv>>

\* The caller writes through the *AccessToken a dispatcher returned to it:
\* tok.ExpiresAt = e.
CallerWritesReturned(p) ==
    /\ pc[p] = "done"
    /\ ret[p].token # Nil
    /\ \E e \in CallerExpiresAt :
          LET tok == [Deref(ret[p].token) EXCEPT !.ExpiresAt = e] IN
          /\ e # Deref(ret[p].token).ExpiresAt
          /\ ret' = [ret EXCEPT ![p].token = Ptr(tok)]
          /\ tokenResp' = [tokenResp EXCEPT ![p] = Ptr(tok)]
          /\ t' = IF SameObject(p) THEN tok ELSE t
    /\ UNCHANGED <<now, mutex, issued, pc, calls, err, arg, used, seen, seenNow,
                   startT, nRefresh, nFetch, interfered, refreshCalls,
                   lastFailed, fetchVars, libVars>>

\* One goroutine calls GetMeasure again and again and, between the calls,
\* writes to the tokens it holds.
NextAlias ==
    \/ Tick
    \/ Invoke("g1")
    \/ Lock("g1")
    \/ Check("g1")
    \/ RefreshOk("g1")
    \/ RefreshFail("g1")
    \/ Write("g1")
    \/ Unlock("g1")
    \/ Read("g1")
    \/ FetchReturn("g1")
    \/ CallerWritesGiven
    \/ CallerWritesReturned("g1")

SpecAlias == Init /\ [][NextAlias]_vars

\* ------------------------------------------------------------------- text

\* A Go string is the sequence of its characters.

\* The characters net/url's QueryEscape writes as %XX, with their two hex
\* digits; a space is written as "+", every other character of this model is
\* unreserved.
HexOf ==
    ("&" :> <<"2", "6">>) @@ ("=" :> <<"3", "D">>) @@ ("," :> <<"2", "C">>) @@
    (":" :> <<"3", "A">>) @@ ("/" :> <<"2", "F">>) @@ ("?" :> <<"3", "F">>) @@
    ("+" :> <<"2", "B">>) @@ ("%" :> <<"2", "5">>)

\* url.QueryEscape
NoEscape(s) == s
RECURSIVE QueryEscape(_)
QueryEscape(s) ==
    IF s = <<>> THEN <<>>
    ELSE LET c == Head(s) IN
         (IF c = " " THEN <<"+">>
          ELSE IF c \in DOMAIN HexOf THEN <<"%">> \o HexOf[c]
          ELSE <<c>>) \o QueryEscape(Tail(s))

\* The character two hex digits stand for.
CharOf(h) ==
    IF \E c \in DOMAIN HexOf : HexOf[c] = h
    THEN CHOOSE c \in DOMAIN HexOf : HexOf[c] = h
    ELSE "?"

\* url.QueryUnescape
RECURSIVE QueryUnescape(_)
QueryUnescape(s) ==
    IF s = <<>> THEN <<>>
    ELSE IF Head(s) = "%" /\ Len(s) >= 3
         THEN <<CharOf(<<s[2], s[3]>>)>> \o QueryUnescape(SubSeq(s, 4, Len(s)))
         ELSE IF Head(s) = "+"
              THEN <<" ">> \o QueryUnescape(Tail(s))
              ELSE <<Head(s)>> \o QueryUnescape(Tail(s))

\* strings.Join
RECURSIVE Join(_, _)
Join(ss, sep) ==
    IF ss = <<>> THEN <<>>
    ELSE IF Len(ss) = 1 THEN ss[1]
    ELSE ss[1] \o <<sep>> \o Join(Tail(ss), sep)

\* strings.Split on one character
RECURSIVE Split(_, _)
Split(s, sep) ==
    IF \A i \in 1..Len(s) : s[i] # sep THEN <<s>>
    ELSE LET i == CHOOSE j \in 1..Len(s) :
                      s[j] = sep /\ \A k \in 1..(j - 1) : s[k] # sep
         IN <<SubSeq(s, 1, i - 1)>> \o Split(SubSeq(s, i + 1, Len(s)), sep)

\* strings.Contains
Contains(s, sub) ==
    \E i \in 0..(Len(s) - Len(sub)) : SubSeq(s, i + 1, i + Len(sub)) = sub

\* The keys of the authorization query.
KeyClientID == <<"c", "l", "i", "e", "n", "t", "_", "i", "d">>
KeyMode == <<"m", "o", "d", "e">>
KeyRedirectURI == <<"r", "e", "d", "i", "r", "e", "c", "t", "_", "u", "r", "i">>
KeyResponseType == <<"r", "e", "s", "p", "o", "n", "s", "e", "_", "t", "y", "p", "e">>
KeyScope == <<"s", "c", "o", "p", "e">>
KeyState == <<"s", "t", "a", "t", "e">>

\* The keys in the order url.Values.Encode writes them (sorted by key).
SortedKeys ==
    <<KeyClientID, KeyMode, KeyRedirectURI, KeyResponseType, KeyScope, KeyState>>

\* url.Values.Encode: "key=value" of every key set, both escaped, joined by
\* "&".  A url.Values that was only written with Set is a function from keys
\* to values.
RECURSIVE EncodeKeys(_, _)
EncodeKeys(q, ks) ==
    IF ks = <<>> THEN <<>>
    ELSE LET k == Head(ks)
             rest == EncodeKeys(q, Tail(ks))
         IN IF k \in DOMAIN q
            THEN QueryEscape(k) \o <<"=">> \o QueryEscape(q[k])
                    \o (IF rest = <<>> THEN <<>> ELSE <<"&">> \o rest)
            ELSE rest

Encode(q) == EncodeKeys(q, SortedKeys)

\* url.ParseQuery: the "key=value" pieces of a raw query, unescaped, in order.
Pieces(raw) ==
    LET ps == Split(raw, "&")
        Cut(p) == IF \E i \in 1..Len(p) : p[i] = "="
                  THEN LET i == CHOOSE j \in 1..Len(p) :
                                    p[j] = "=" /\ \A k \in 1..(j - 1) : p[k] # "="
                       IN <<QueryUnescape(SubSeq(p, 1, i - 1)),
                            QueryUnescape(SubSeq(p, i + 1, Len(p)))>>
                  ELSE <<QueryUnescape(p), <<>>>>
    IN [i \in {j \in 1..Len(ps) : ps[j] # <<>>} |-> Cut(ps[i])]

\* url.Values.Has and url.Values.Get of the parsed raw query.
QueryHas(raw, k) == \E i \in DOMAIN Pieces(raw) : Pieces(raw)[i][1] = k
QueryGet(raw, k) ==
    LET ps == Pieces(raw)
        is == {i \in DOMAIN ps : ps[i][1] = k}
    IN IF is = {} THEN <<>>
       ELSE ps[CHOOSE i \in is : \A j \in is : i <= j][2]

\* ----------------------------------------------------------------- Client

\* The ClientOption values: WithSkipSSLVerify(), SetHTTPClientTimeout(d) for
\* two durations (in seconds), WithDemoMode().
Options ==
    {[kind |-> "WithSkipSSLVerify", timeout |-> 0],
     [kind |-> "SetHTTPClientTimeout", timeout |-> 10],
     [kind |-> "SetHTTPClientTimeout", timeout |-> 30],
     [kind |-> "WithDemoMode", timeout |-> 0]}

\* Option lists of at most n options.
OptionLists(n) == UNION {[1..k -> Options] : k \in 0..n}

\* The client id given to NewClient.
ClientIDText == <<"i", "d">>

\* The redirect URLs given to NewClient, as url.URL.String() writes them.
RedirectURLs ==
    {<<"h", ":", "/", "c">>, <<"h", ":", "/", "c", "?", "a", "=", "b">>}

\* The scopes and the state values given to GetUserAuthRequestURL.
ScopeSet == {<<"u", ".", "a">>, <<"u", ".", "m">>}
ScopeLists(n) == UNION {[1..k -> ScopeSet] : k \in 0..n}
StateSet ==
    {<<>>, <<"S">>, <<"a", "&", "b", "=">>,
     <<"x", "&", "m", "o", "d", "e", "=", "d", "e", "m", "o">>}

\* What reading 32 bytes of rand.Reader and encoding them with
\* base64.URLEncoding gives: nil when the read fails, else the text, 43
\* characters of the URL-safe alphabet and one "=" of padding (cut here to
\* two characters and the padding).
RandomStates == {Nil, Ptr(<<"r", "1", "=">>), Ptr(<<"r", "2", "=">>)}

\* The function an option is, applied to the client.
Apply(opt, c) ==
    CASE opt.kind = "WithSkipSSLVerify" ->
            [c EXCEPT !.skipCertificateVerification = TRUE]
      [] opt.kind = "SetHTTPClientTimeout" ->
            [c EXCEPT !.httpClientTimeout = opt.timeout]
      [] opt.kind = "WithDemoMode" ->
            [c EXCEPT !.demoMode = TRUE]

\* for _, opt := range opts { opt(c) }
RECURSIVE ApplyOpts(_, _)
ApplyOpts(c, os) ==
    IF os = <<>> THEN c ELSE ApplyOpts(Apply(Head(os), c), Tail(os))

\* The client whose fields the HTTP client is built from: c0 is the client
\* as constructed, c the client after the options.
BuiltFromDefaults(c0, c) == c0
BuiltFrom(c0, c) == c

\* NewClient(clientID, clientSecret, redirectURL, opts...)
NewClient(clientID, redirectURL, os) ==
    LET c0 == [clientID |-> clientID,
               redirectURL |-> redirectURL,
               httpClientTimeout |-> 0,
               skipCertificateVerification |-> FALSE,
               demoMode |-> FALSE,
               HttpClient |-> Nil]
        c == ApplyOpts(c0, os)
        b == BuiltFrom(c0, c)
    IN [c EXCEPT !.HttpClient =
            Ptr([Timeout |-> b.httpClientTimeout,
                 InsecureSkipVerify |-> b.skipCertificateVerification])]

\* The query after  if c.demoMode { query.Set("mode", "demo") }
DemoModeAlways(c, q) == q @@ (KeyMode :> <<"d", "e", "m", "o">>)
WithMode(c, q) == IF c.demoMode THEN q @@ (KeyMode :> <<"d", "e", "m", "o">>) ELSE q

\* Client.GetUserAuthRequestURL(scopes, state), rnd being what the random
\* source gives: <<the RawQuery of authRequestURL, expectedState, err>>.
GetUserAuthRequestURL(c, scopes, state, rnd) ==
    IF state = <<>> /\ rnd = Nil
    THEN <<<<>>, <<>>, "failed to generate state value">>
    ELSE LET st == IF state = <<>> THEN Deref(rnd) ELSE state
             q == (KeyResponseType :> <<"c", "o", "d", "e">>)
                  @@ (KeyClientID :> c.clientID)
                  @@ (KeyState :> st)
                  @@ (KeyScope :> Join(scopes, ","))
                  @@ (KeyRedirectURI :> c.redirectURL)
         IN <<Encode(WithMode(c, q)), st, NoErr>>

\* A caller is about to build a Client with some options.
InitClient ==
    /\ InitSession
    /\ t = Token(1, 30)
    /\ opts \in OptionLists(MaxOpts)
    /\ client = Nil
    /\ authReq = Nil
    /\ param = Nil
    /\ query = Nil
    /\ groups = <<>>
    /\ conv = Nil

\* c := NewClient(clientID, clientSecret, redirectURL, opts...)
NewClientCall ==
    /\ client = Nil
    /\ \E r \in RedirectURLs : client' = Ptr(NewClient(ClientIDText, r, opts))
    /\ UNCHANGED <<sessionVars, given, opts, authReq, param, query, groups, conv>>

\* authRequestURL, expectedState, err := c.GetUserAuthRequestURL(scopes, state)
\* The method reads the client and writes nothing, so one call of a run is
\* followed.
GetUserAuthRequestURLCall ==
    /\ client # Nil
    /\ authReq = Nil
    /\ \E scopes \in ScopeLists(MaxScopes), state \in StateSet, rnd \in RandomStates :
          LET r == GetUserAuthRequestURL(Deref(client), scopes, state, rnd) IN
          authReq' = Ptr([scopes |-> scopes, state |-> state,
                          RawQuery |-> r[1], expectedState |-> r[2], err |-> r[3]])
    /\ UNCHANGED <<sessionVars, given, opts, client, param, query, groups, conv>>

NextClient ==
    \/ NewClientCall
    \/ GetUserAuthRequestURLCall

SpecClient == InitClient /\ [][NextClient]_vars

\* ------------------------------------------------------------ UpdateQuery

\* strconv.FormatInt(n, 10)
RECURSIVE FormatNat(_)
FormatNat(n) ==
    LET d == <<"0", "1", "2", "3", "4", "5", "6", "7", "8", "9">>[(n % 10) + 1]
    IN IF n < 10 THEN <<d>> ELSE FormatNat(n \div 10) \o <<d>>
FormatInt(n) == IF n < 0 THEN <<"-">> \o FormatNat(-n) ELSE FormatNat(n)

\* MeasureTypes.String()
MeasureTypesString(ts) == Join([i \in 1..Len(ts) |-> FormatInt(ts[i])], ",")

\* WorkoutDataFields.String(); a data field is one word.
WorkoutDataFieldsString(fs) == Join([i \in 1..Len(fs) |-> <<fs[i]>>], ",")

\* url.Values.Set on a url.Values that holds one value per key.
Set(q, k, v) == [x \in DOMAIN q \cup {k} |-> IF x = k THEN v ELSE q[x]]

\* req.URL.Query() of a request built for an API path, which has no query.
EmptyQuery == [x \in {} |-> <<>>]

\* The params: Offset, and StartDate, EndDate and LastUpdate as *time.Time,
\* a time being its Unix() seconds.  MeasurementTypes is a field of
\* GetMeasureParam only and DataFields one of GetWorkoutParam only.
UnixTimes == {-5, 1700}
Params ==
    [MeasurementTypes : {<<1, 4>>},
     DataFields : {<<"calories", "intensity">>},
     Offset : {-1, 0, 1, 25},
     StartDate : {Nil} \cup {Ptr(x) : x \in UnixTimes},
     EndDate : {Nil} \cup {Ptr(x) : x \in UnixTimes},
     LastUpdate : {Nil} \cup {Ptr(x) : x \in UnixTimes}]

\* switch p.LastUpdate { case nil: ... default: ... }: the case that writes
\* startdate and enddate is taken.
WindowAlways(p) == TRUE
WindowUsed(p) == p.LastUpdate = Nil

\* The part of UpdateQuery that GetMeasureParam and GetWorkoutParam share.
UpdatePaging(p, q) ==
    LET q1 == IF p.Offset > 0 THEN Set(q, "offset", FormatInt(p.Offset)) ELSE q
        q2 == IF p.StartDate # Nil
              THEN Set(q1, "startdate", FormatInt(Deref(p.StartDate))) ELSE q1
        q3 == IF p.EndDate # Nil
              THEN Set(q2, "enddate", FormatInt(Deref(p.EndDate))) ELSE q2
    IN IF WindowUsed(p)
       THEN q3
       ELSE Set(q1, "lastupdate", FormatInt(Deref(p.LastUpdate)))

\* GetMeasureParam.UpdateQuery(q)
MeasureUpdateQuery(p, q) ==
    UpdatePaging(p, Set(Set(q, "action", <<"getmeas">>),
                        "meastypes", MeasureTypesString(p.MeasurementTypes)))

\* GetWorkoutParam.UpdateQuery(q)
WorkoutUpdateQuery(p, q) ==
    UpdatePaging(p, Set(Set(q, "action", <<"APIActionGetWorkout">>),
                        "data_fields", WorkoutDataFieldsString(p.DataFields)))

\* A caller has filled in a param.
InitQuery ==
    /\ InitSession
    /\ t = Token(1, 30)
    /\ opts = <<>>
    /\ client = Nil
    /\ authReq = Nil
    /\ param \in {Ptr(p) : p \in Params}
    /\ query = Nil
    /\ groups = <<>>
    /\ conv = Nil

\* Client.GetMeasure: param.UpdateQuery(req.URL.Query())
GetMeasureUpdateQuery ==
    /\ query' = Ptr([of |-> "GetMeasureParam",
                     q |-> MeasureUpdateQuery(Deref(param), EmptyQuery)])
    /\ UNCHANGED <<sessionVars, given, opts, client, authReq, param, groups, conv>>

\* Client.GetWorkout: param.UpdateQuery(req.URL.Query())
GetWorkoutUpdateQuery ==
    /\ query' = Ptr([of |-> "GetWorkoutParam",
                     q |-> WorkoutUpdateQuery(Deref(param), EmptyQuery)])
    /\ UNCHANGED <<sessionVars, given, opts, client, authReq, param, groups, conv>>

NextQuery ==
    \/ GetMeasureUpdateQuery
    \/ GetWorkoutUpdateQuery

SpecQuery == InitQuery /\ [][NextQuery]_vars

\* --------------------------------------------------------------- measures

\* The conversion helpers Measure.ToX / MeasureGroups.Xs, named by X; the
\* plural methods are Weights, Heights, FatFreeMasses, ... of the same lines.
Helpers ==
    {"Weight", "Height", "FatFreeMass", "FatRatio", "FatMassWeight",
     "DiastolicBloodPressure", "SystolicBloodPressure", "HeartPulse",
     "Temperature", "SPO2", "BodyTemperature", "SkinTemperature", "MuscleMass",
     "Hydration", "BoneMass", "PulseWaveVelocity", "Vo2Max", "QRS", "PR", "QT",
     "CorrectedQT", "AfibResult"}

\* The MeasureType constant that ToX compares m.Type with.
TypeOf(X) ==
    CASE X = "Weight" -> 1
      [] X = "Height" -> 4
      [] X = "FatFreeMass" -> 5
      [] X = "FatRatio" -> 6
      [] X = "FatMassWeight" -> 8
      [] X = "DiastolicBloodPressure" -> 9
      [] X = "SystolicBloodPressure" -> 10
      [] X = "HeartPulse" -> 11
      [] X = "Temperature" -> 12
      [] X = "SPO2" -> 54
      [] X = "BodyTemperature" -> 71
      [] X = "SkinTemperature" -> 73
      [] X = "MuscleMass" -> 76
      [] X = "Hydration" -> 77
      [] X = "BoneMass" -> 88
      [] X = "PulseWaveVelocity" -> 91
      [] X = "Vo2Max" -> 123
      [] X = "QRS" -> 135
      [] X = "PR" -> 136
      [] X = "QT" -> 137
      [] X = "CorrectedQT" -> 138
      [] X = "AfibResult" -> 139

\* A time.Time is the zero Time, <<>>, or an instant, <<milliseconds since
\* the Unix epoch>>.
ZeroTime == <<>>
\* time.Unix(sec, 0)
Unix(sec) == <<sec * 1000>>
\* time.UnixMilli(msec)
UnixMilli(msec) == <<msec>>

\* w.Created = ... of ToX: ToWeight calls time.Unix(group.Created, 0), every
\* other helper time.UnixMilli(group.Created).
CreatedTime(X, created) ==
    IF X = "Weight" THEN Unix(created) ELSE UnixMilli(created)

\* math.Pow10(n) for n >= 0
RECURSIVE Pow10(_)
Pow10(n) == IF n = 0 THEN 1 ELSE 10 * Pow10(n - 1)

\* Measure.DecimalValue: float64(m.Value) * math.Pow10(m.Unit), as the
\* fraction num / den.
DecimalValue(m) ==
    IF m.Unit >= 0
    THEN [num |-> m.Value * Pow10(m.Unit), den |-> 1]
    ELSE [num |-> m.Value, den |-> Pow10(-m.Unit)]

\* if m.Type != MeasureTypeX
AnyType(X, m) == FALSE
NotOfType(X, m) == m.Type # TypeOf(X)

\* Measure.ToX(group): nil unless m.Type is the type of X; the fields of the
\* group are taken over when group is not nil.
ToX(X, m, group) ==
    IF NotOfType(X, m) THEN Nil
    ELSE LET w == [of |-> X, value |-> DecimalValue(m),
                   Created |-> ZeroTime, DeviceID |-> "", GroupID |-> 0]
         IN IF group # Nil
            THEN Ptr([w EXCEPT !.Created = CreatedTime(X, Deref(group).Created),
                               !.DeviceID = Deref(group).DeviceID,
                               !.GroupID = Deref(group).GroupID])
            ELSE Ptr(w)

\* The inner loop of MeasureGroups.Xs: the measures of one group from the
\* i-th on, appended when ToX is not nil.
RECURSIVE XsOfGroup(_, _, _)
XsOfGroup(X, g, i) ==
    IF i > Len(g.Measures) THEN <<>>
    ELSE LET w == ToX(X, g.Measures[i], Ptr(g))
         IN (IF w # Nil THEN <<w>> ELSE <<>>) \o XsOfGroup(X, g, i + 1)

\* MeasureGroups.Xs(): a slice made with make, never nil; a slice is a
\* pointer to its elements, <<>> being the nil slice.
RECURSIVE XsFrom(_, _, _)
XsFrom(X, gs, i) ==
    IF i > Len(gs) THEN <<>> ELSE XsOfGroup(X, gs[i], 1) \o XsFrom(X, gs, i + 1)
Xs(X, gs) == Ptr(XsFrom(X, gs, 1))

\* The measures of the model: 123 of type weight with unit 2 and with unit
\* -2, and 170 of type height with unit -2.
W2 == [Value |-> 123, Type |-> 1, Unit |-> 2]
Wm2 == [Value |-> 123, Type |-> 1, Unit |-> -2]
Hm2 == [Value |-> 170, Type |-> 4, Unit |-> -2]
Other == [Value |-> 5, Type |-> 999, Unit |-> 0]

\* The Measures lists of a group.
MeasureLists == {<<>>, <<Wm2>>, <<Hm2, Other>>, <<Wm2, Hm2, W2>>}

\* The created field of a group, seconds since the Unix epoch.
CreatedSet == {0, 1700}

\* MeasureGroups of n groups; the i-th has GroupID 10 + i and DeviceID "d".
GroupsOf(n) ==
    {[i \in 1..n |-> [GroupID |-> 10 + i, Created |-> c[i], DeviceID |-> "d",
                      Measures |-> ms[i]]] :
        c \in [1..n -> CreatedSet], ms \in [1..n -> MeasureLists]}

\* A GetMeasureResp has been decoded.
InitMeasure ==
    /\ InitSession
    /\ t = Token(1, 30)
    /\ opts = <<>>
    /\ client = Nil
    /\ authReq = Nil
    /\ param = Nil
    /\ query = Nil
    /\ groups \in UNION {GroupsOf(n) : n \in 0..MaxGroups}
    /\ conv = Nil

\* The helpers are functions of their arguments alone, so one call of a run
\* is followed.
\* A call of a helper: which, on which measure of which group (0: none),
\* with the group passed or nil, and what it returned.
Conv(fn, X, g, m, withGroup, result) ==
    Ptr([fn |-> fn, X |-> X, g |-> g, m |-> m, withGroup |-> withGroup,
         result |-> result])

\* groups[g].Measures[m].DecimalValue()
DecimalValueCall ==
    /\ conv = Nil
    /\ \E g \in 1..Len(groups) : \E m \in 1..Len(groups[g].Measures) :
          conv' = Conv("DecimalValue", "", g, m, FALSE,
                       DecimalValue(groups[g].Measures[m]))
    /\ UNCHANGED <<sessionVars, given, opts, client, authReq, param, query, groups>>

\* groups[g].Measures[m].ToX(&groups[g])  or  .ToX(nil)
ToXCall ==
    /\ conv = Nil
    /\ \E X \in Helpers, withGroup \in BOOLEAN :
       \E g \in 1..Len(groups) : \E m \in 1..Len(groups[g].Measures) :
          conv' = Conv("ToX", X, g, m, withGroup,
                       ToX(X, groups[g].Measures[m],
                           IF withGroup THEN Ptr(groups[g]) ELSE Nil))
    /\ UNCHANGED <<sessionVars, given, opts, client, authReq, param, query, groups>>

\* groups.Xs()
XsCall ==
    /\ conv = Nil
    /\ \E X \in Helpers : conv' = Conv("Xs", X, 0, 0, TRUE, Xs(X, groups))
    /\ UNCHANGED <<sessionVars, given, opts, client, authReq, param, query, groups>>

NextMeasure ==
    \/ DecimalValueCall
    \/ ToXCall
    \/ XsCall

SpecMeasure == InitMeasure /\ [][NextMeasure]_vars

\* ------------------------------------------------------------- properties

\* The goroutine is inside checkToken with the mutex acquired (lines 29-43).
InCheckToken(p) == pc[p] \in {"check", "refresh", "write", "unlock"}

\* The expiry check of the current invocation of p has been made.
Checked(p) == seen[p] # Nil

\* Seconds between the expiry check of p and the expiry of the token it read.
ExpiresInAtCheck(p) == Deref(seen[p]).ExpiresAt - seenNow[p]

\* C1: at most one goroutine is between a.Lock() and a.Unlock() of checkToken,
\* so at most one RefreshAccessToken call of the session is in flight.
C1_CheckTokenSerialized ==
    /\ \A p, q \in Callers : p # q => ~(InCheckToken(p) /\ InCheckToken(q))
    /\ Cardinality({p \in Callers : pc[p] = "refresh"}) <= 1
    /\ \A p \in Callers : InCheckToken(p) => mutex = p

\* C1 witness: one goroutine waits at a.Lock() while the refresh of the other
\* is in flight.
C1_Witness ==
    \E p, q \in Callers : p # q /\ pc[p] = "refresh" /\ pc[q] = "lock"

\* Both goroutines have returned from their one invocation; both were invoked
\* on the same token, that token was past its safe expiry at each expiry
\* check, no refresh failed and every token the refreshes returned is still
\* before its own safe expiry.
TwoCallsOnExpiredToken ==
    /\ \A p \in Callers : pc[p] = "done" /\ calls[p] = 1
    /\ \A p, q \in Callers : startT[p] = startT[q]
    /\ \A p \in Callers : NeedsRefresh(Deref(startT[p]), seenNow[p])
    /\ \A p \in Callers : ret[p].err # RefreshErr
    /\ \A p \in Callers :
          ret[p].token # Nil => ~NeedsRefresh(Deref(ret[p].token), now)

C3_FetchUsesReportedToken ==
    \A p \in Callers :
        (pc[p] = "done" /\ used[p] # Nil) =>
            IF ret[p].token # Nil
            THEN used[p] = ret[p].token
            ELSE used[p] = seen[p]

\* C4: no goroutine is at its read of a.t while another goroutine is at the
\* store a.t = &tokenResp.AccessToken.
C4_NoReadDuringWrite ==
    \A p, q \in Callers : p # q => ~(pc[p] = "read" /\ pc[q] = "write")

\* C5: while a fetch is in flight with token X, X is the session's token and
\* no other goroutine is refreshing X.
C5_NoFetchWithInvalidatedToken ==
    \A p \in Callers :
        pc[p] = "fetch" =>
            /\ used[p] = Ptr(t)
            /\ \A q \in Callers \ {p} :
                  pc[q] \in {"refresh", "write"} => arg[q] # used[p]

\* C6: an invocation whose expiry check read a token with ExpiresAt in the
\* past, and whose refresh succeeded, made exactly one refresh call and
\* reports the token the refresh returned, which is the session's token for
\* as long as no other goroutine replaces it.
C6_ExpiredTokenRefreshedOnce ==
    \A p \in Callers :
        (/\ pc[p] = "done"
         /\ Checked(p)
         /\ Deref(seen[p]).ExpiresAt < seenNow[p]
         /\ ret[p].err # RefreshErr) =>
            /\ nRefresh[p] = 1
            /\ ret[p].token # Nil
            /\ ret[p].token = tokenResp[p]
            /\ Deref(ret[p].token).AccessToken # Deref(seen[p]).AccessToken
            /\ ~interfered[p] => Ptr(t) = ret[p].token

\* C6 witness: an invocation on a token already expired has returned the
\* refreshed token, which the session holds.
C6_Witness ==
    \E p \in Callers :
        /\ pc[p] = "done"
        /\ Checked(p)
        /\ Deref(seen[p]).ExpiresAt < seenNow[p]
        /\ nRefresh[p] = 1
        /\ ret[p].token = Ptr(t)

\* C7: while the token the expiry check read expires more than Margin seconds
\* after now, the invocation has made no refresh call, fetches with that
\* token, which is still the session's token, and reports no updated token.
C7_FreshTokenNotRefreshed ==
    \A p \in Callers :
        (/\ pc[p] \in {"fetch", "done"}
         /\ Checked(p)
         /\ Deref(seen[p]).ExpiresAt > now + Margin) =>
            /\ nRefresh[p] = 0
            /\ nFetch[p] = 1
            /\ used[p] = seen[p]
            /\ used[p] = Ptr(t)
            /\ pc[p] = "done" => ret[p].token = Nil

\* C7 witness: an invocation on a fresh token has returned without a refresh.
C7_Witness ==
    \E p \in Callers :
        /\ pc[p] = "done"
        /\ Checked(p)
        /\ Deref(seen[p]).ExpiresAt > now + Margin
        /\ nFetch[p] = 1
        /\ ret[p].token = Nil
        /\ ret[p].err = NoErr

\* C8 as stated: checkToken refreshes exactly when now >= ExpiresAt - 10 s,
\* the boundary instant included.
C8_RefreshIffNotBefore ==
    \A p \in Callers :
        Checked(p) => (nRefresh[p] = 1 <=> ExpiresInAtCheck(p) <= Margin)

\* C8 amended: checkToken refreshes exactly when now > ExpiresAt - 10 s; at
\* the boundary instant now = ExpiresAt - 10 s it does not refresh.
C8_RefreshIffAfter ==
    \A p \in Callers :
        Checked(p) =>
            /\ nRefresh[p] = 1 <=> ExpiresInAtCheck(p) < Margin
            /\ nRefresh[p] = 0 <=> ExpiresInAtCheck(p) >= Margin

\* C8 witness: an expiry check made exactly Margin seconds before ExpiresAt
\* did not refresh.
C8_Witness ==
    \E p \in Callers :
        Checked(p) /\ ExpiresInAtCheck(p) = Margin /\ nRefresh[p] = 0

\* C9: a token that expires in 5 seconds is refreshed, a token that expires
\* in 15 seconds is not.
C9_SkewMargin ==
    \A p \in Callers :
        Checked(p) =>
            /\ ExpiresInAtCheck(p) = 5 => nRefresh[p] = 1
            /\ ExpiresInAtCheck(p) = 15 => nRefresh[p] = 0

\* C9 witness: one expiry check found 5 seconds left and refreshed, another
\* found 15 seconds left and did not.
C9_Witness ==
    \E p, q \in Callers :
        /\ Checked(p) /\ ExpiresInAtCheck(p) = 5 /\ nRefresh[p] = 1
        /\ Checked(q) /\ ExpiresInAtCheck(q) = 15 /\ nRefresh[q] = 0

\* C10: after a failed refresh the session's token is the token checkToken
\* read, and it is the token the session held when the invocation began
\* unless another goroutine replaced it meanwhile.
C10_FailedRefreshKeepsToken ==
    \A p \in Callers :
        (pc[p] \in {"unlock", "done"} /\ err[p] = RefreshErr) =>
            /\ mutex = p => Ptr(t) = seen[p]
            /\ ~interfered[p] => Ptr(t) = startT[p]

\* C10 witness: an invocation has returned the refresh error and the session
\* holds the token it held before.
C10_Witness ==
    \E p \in Callers :
        /\ pc[p] = "done"
        /\ ret[p].err = RefreshErr
        /\ nRefresh[p] = 1
        /\ ~interfered[p]
        /\ Ptr(t) = startT[p]

\* The errors a Client fetch returns.
FetchErrs == {APIErr, TransportErr, ReadErr, ParseErr, BuildErr}

\* The token the session held when checkToken of this invocation returned.
TokenAfterCheck(p) == IF tokenResp[p] # Nil THEN tokenResp[p] ELSE seen[p]

\* C11: when checkToken returns an error the dispatcher returns
\* (nil, nil, that error) and never enters the Client fetch.
C11_AbortOnRefreshError ==
    \A p \in Callers :
        /\ err[p] # NoErr => pc[p] \in {"unlock", "done"}
        /\ (pc[p] = "done" /\ err[p] # NoErr) =>
              /\ ret[p] = [resp |-> Nil, token |-> Nil, err |-> RefreshErr]
              /\ nFetch[p] = 0
              /\ nNet[p] = 0
              /\ used[p] = Nil
              /\ fetched[p] = "none"

\* C11 witness: an invocation has returned the refresh error without a fetch.
C11_Witness ==
    \E p \in Callers :
        /\ pc[p] = "done"
        /\ err[p] = RefreshErr
        /\ ret[p].err = RefreshErr
        /\ nFetch[p] = 0

\* C12: an invocation never makes a second refresh call, a failed refresh
\* ends checkToken, and as long as the latest refresh of the session failed
\* the stored token is past its safe expiry and no expiry check judges it
\* valid, so the next invocation calls the refresh again.
C12_FailedRefreshNotRetried ==
    /\ \A p \in Callers : nRefresh[p] <= 1
    /\ \A p \in Callers :
          err[p] = RefreshErr => nRefresh[p] = 1 /\ pc[p] \in {"unlock", "done"}
    /\ lastFailed => NeedsRefresh(t, now)
    /\ \A p \in Callers :
          (pc[p] = "unlock" /\ err[p] = NoErr /\ tokenResp[p] = Nil) => ~lastFailed

\* C12 witness: after a failed refresh, a later expiry check has called the
\* refresh again.
C12_Witness ==
    \E p \in Callers : pc[p] = "refresh" /\ lastFailed /\ refreshCalls = 2

\* C13: an invocation makes no or one refresh call, and when it made one the
\* refresh has returned and its token has been stored before the Client fetch
\* is entered.
C13_RefreshBeforeFetch ==
    \A p \in Callers :
        /\ nRefresh[p] \in {0, 1}
        /\ ((pc[p] \in {"read", "fetch"} \/ nFetch[p] > 0) /\ nRefresh[p] = 1) =>
              /\ tokenResp[p] # Nil
              /\ err[p] = NoErr
              /\ ~interfered[p] => Ptr(t) = tokenResp[p]

\* C13 witness: a fetch is in flight after the refresh of the same invocation
\* stored its token.
C13_Witness ==
    \E p \in Callers :
        pc[p] = "fetch" /\ nRefresh[p] = 1 /\ Ptr(t) = tokenResp[p]

\* C14 as stated: every invocation makes exactly one data-fetch network call.
C14_ExactlyOneFetch ==
    \A p \in Callers : pc[p] = "done" => nNet[p] = 1

\* C14 amended: an invocation never makes more than one data fetch; it makes
\* exactly one Client fetch unless the refresh failed, and that fetch sends
\* exactly one HTTP request unless building the request failed.
C14_AtMostOneFetch ==
    \A p \in Callers :
        /\ nFetch[p] <= 1
        /\ nNet[p] <= nFetch[p]
        /\ pc[p] = "done" =>
              /\ nFetch[p] = IF ret[p].err = RefreshErr THEN 0 ELSE 1
              /\ nNet[p] = IF ret[p].err \in {RefreshErr, BuildErr} THEN 0 ELSE 1

\* C14 witness: a fetch answered with an API error status was made once and
\* the invocation has returned.
C14_Witness ==
    \E p \in Callers :
        /\ pc[p] = "done"
        /\ http[p] = [stage |-> "ok", status |-> 401]
        /\ ret[p].err = APIErr
        /\ nNet[p] = 1

\* C15: an invocation whose Client fetch failed returns what the fetch
\* returned, made one fetch and no refresh besides the one of checkToken, and
\* leaves the session the token it held when checkToken returned, unless
\* another goroutine replaced it.
C15_FetchFailureAsIs ==
    \A p \in Callers :
        (pc[p] = "done" /\ ret[p].err \in FetchErrs) =>
            /\ <<ret[p].resp, ret[p].err>> = ClientFetch(http[p])
            /\ nFetch[p] = 1
            /\ nRefresh[p] = IF tokenResp[p] # Nil THEN 1 ELSE 0
            /\ ~interfered[p] => Ptr(t) = TokenAfterCheck(p)

\* C15 witness: a fetch failed in transport and the session holds the token
\* the expiry check judged valid.
C15_Witness ==
    \E p \in Callers :
        /\ pc[p] = "done"
        /\ ret[p].err = TransportErr
        /\ nRefresh[p] = 0
        /\ ~interfered[p]
        /\ Ptr(t) = seen[p]

\* The invocation of p began on a token a refresh had stored.
BeganOnRefreshed(p) ==
    /\ pc[p] \in {"fetch", "done"}
    /\ used[p] # Nil
    /\ Deref(startT[p]).AccessToken > 1

\* C16: an invocation that begins after a refresh stored A2 never fetches
\* with an older token, and while now is before A2's safe expiry it makes no
\* refresh call and fetches with A2, which the session still holds.
C16_RefreshedTokenUsed ==
    \A p \in Callers :
        BeganOnRefreshed(p) =>
            /\ Deref(used[p]).AccessToken >= Deref(startT[p]).AccessToken
            /\ now < ExpAt(Deref(startT[p])) =>
                  /\ nRefresh[p] = 0
                  /\ used[p] = startT[p]
                  /\ Ptr(t) = startT[p]

\* C16 witness: an invocation that began on a refreshed token has fetched
\* with it, without a refresh.
C16_Witness ==
    \E p \in Callers :
        /\ BeganOnRefreshed(p)
        /\ pc[p] = "done"
        /\ now < ExpAt(Deref(startT[p]))
        /\ used[p] = startT[p]
        /\ nRefresh[p] = 0

\* C17: the session always holds a token, the one given to NewAuthorizedUser
\* or one the token endpoint issued.
C17_AlwaysHoldsToken ==
    /\ DOMAIN t = {"AccessToken", "RefreshToken", "ExpiresAt"}
    /\ t.AccessToken \in 1..issued
    /\ t.RefreshToken \in 1..issued

\* C17 witness: after a failed and then a successful refresh, and a fetch,
\* the session holds the refreshed token.
C17_Witness ==
    /\ t.AccessToken = 2
    /\ refreshCalls = 2
    /\ \E p \in Callers : pc[p] = "done" /\ ret[p].err = RefreshErr
    /\ \E p \in Callers : pc[p] = "done" /\ nFetch[p] = 1

\* C18: whichever of the eight dispatchers is called, it runs the one
\* sequence of this model and the Client fetch it calls is the one of its own
\* name; its results are those of that fetch and the token of checkToken.
C18_OneDispatcherForAllOps ==
    \A p \in Callers :
        /\ op[p] \in Ops
        /\ fetched[p] # "none" => fetched[p] = op[p]
        /\ (pc[p] = "done" /\ fetched[p] # "none") =>
              /\ <<ret[p].resp, ret[p].err>> = ClientFetch(http[p])
              /\ ret[p].token = IF nRefresh[p] = 1 THEN Ptr(t) ELSE Nil
        /\ (pc[p] = "done" /\ fetched[p] = "none") =>
              ret[p] = [resp |-> Nil, token |-> Nil, err |-> RefreshErr]

\* C18 witness: GetSleepSummary has refreshed, called Client.GetSleepSummary
\* and returned.
C18_Witness ==
    \E p \in Callers :
        /\ pc[p] = "done"
        /\ op[p] = "GetSleepSummary"
        /\ fetched[p] = "GetSleepSummary"
        /\ nRefresh[p] = 1
        /\ ret[p].err = NoErr

\* C19: a Client fetch returns a nil error exactly when the response was
\* read and parsed and its status is 0; with another status it returns the
\* parsed response and an error; when sending, reading or parsing failed it
\* returns a nil response and an error.
C19_ClientFetchResult ==
    \A p \in Callers :
        (pc[p] = "done" /\ fetched[p] # "none") =>
            LET o == http[p] IN
            /\ ret[p].err = NoErr <=> (o.stage = "ok" /\ o.status = 0)
            /\ ret[p].err = NoErr =>
                  ret[p].resp # Nil /\ Deref(ret[p].resp).Status = 0
            /\ (o.stage = "ok" /\ o.status # 0) =>
                  /\ ret[p].err # NoErr
                  /\ ret[p].resp # Nil
                  /\ Deref(ret[p].resp).Status = o.status
            /\ o.stage \in {"do", "read", "parse"} =>
                  ret[p].resp = Nil /\ ret[p].err # NoErr

\* C19 witness: the API answered with status 401 and the fetch returned the
\* parsed response with an error.
C19_Witness ==
    \E p \in Callers :
        /\ pc[p] = "done"
        /\ http[p] = [stage |-> "ok", status |-> 401]
        /\ ret[p].resp = Ptr([Status |-> 401])
        /\ ret[p].err # NoErr

\* C20: when building the HTTP request fails, the Client fetch returns the
\* error at once and sends no request.
C20_BuildFailureSendsNothing ==
    \A p \in Callers :
        http[p].stage = "build" =>
            /\ nNet[p] = 0
            /\ pc[p] = "done"
            /\ ret[p].resp = Nil
            /\ ret[p].err = BuildErr

\* C20 witness: a Client fetch was entered, building its request failed and
\* it has returned.
C20_Witness ==
    \E p \in Callers :
        /\ http[p].stage = "build"
        /\ pc[p] = "done"
        /\ nFetch[p] = 1
        /\ nNet[p] = 0

\* C26: an invocation whose refresh succeeded and whose Client fetch failed
\* returns the token the refresh returned, not nil, together with the error
\* and the response of the fetch.
C26_TokenReturnedOnFetchError ==
    \A p \in Callers :
        (pc[p] = "done" /\ tokenResp[p] # Nil /\ ret[p].err \in FetchErrs) =>
            /\ nRefresh[p] = 1
            /\ ret[p].token # Nil
            /\ ret[p].token = tokenResp[p]
            /\ Deref(ret[p].token).AccessToken # Deref(seen[p]).AccessToken
            /\ <<ret[p].resp, ret[p].err>> = ClientFetch(http[p])

\* C26 witness: after a successful refresh the API answered the fetch with
\* status 401; the invocation has returned the response, the new token and
\* the error.
C26_Witness ==
    \E p \in Callers :
        /\ pc[p] = "done"
        /\ nRefresh[p] = 1
        /\ ret[p].err = APIErr
        /\ ret[p].resp = Ptr([Status |-> 401])
        /\ ret[p].token = tokenResp[p]
        /\ ret[p].token # Nil

\* C27: the stored token changes only by the store of checkToken after a
\* successful refresh, made with the lock held, which replaces it by the
\* token the refresh returned; no other step changes it, be it an expiry
\* check, a failed refresh, a fetch, or a write of the caller to the token it
\* passed to NewAuthorizedUser or to the token a dispatcher returned to it.
C27_TokenReplacedOnlyByRefresh ==
    [][t' # t =>
          \E p \in Callers :
              /\ pc[p] = "write"
              /\ mutex = p
              /\ tokenResp[p] # Nil
              /\ t' = Deref(tokenResp[p])]_vars

\* C28: the mutex is held only by a goroutine inside checkToken, so it is
\* free after every return of checkToken, and every invocation that has begun
\* eventually returns, whatever the other goroutines do and whether or not a
\* refresh fails.
C28_EveryInvocationReturns ==
    /\ [](\A p \in Callers : mutex = p => InCheckToken(p))
    /\ \A p \in Callers : (pc[p] \notin {"idle", "done"}) ~> (pc[p] = "done")

\* C28 witness: a goroutine waits in a.Lock() behind a goroutine whose
\* refresh has failed and that is about to return from checkToken.
C28_Witness ==
    \E p, q \in Callers :
        /\ p # q
        /\ pc[p] = "unlock"
        /\ err[p] = RefreshErr
        /\ mutex = p
        /\ pc[q] = "lock"

\* -------------------------------------------- properties of the Client

\* The latest GetUserAuthRequestURL call.
AuthReq == Deref(authReq)

\* The text the random source can generate.
GeneratedStates == {Deref(r) : r \in RandomStates \ {Nil}}

\* The URL of the latest call carries every given scope and the redirect URL
\* of the client.
CarriesScopesAndRedirect ==
    /\ QueryGet(AuthReq.RawQuery, KeyScope) = Join(AuthReq.scopes, ",")
    /\ \A i \in 1..Len(AuthReq.scopes) :
          Contains(QueryGet(AuthReq.RawQuery, KeyScope), AuthReq.scopes[i])
    /\ QueryGet(AuthReq.RawQuery, KeyRedirectURI) = Deref(client).redirectURL

\* C21 as stated: whatever the scopes and the state, the returned state is
\* not empty; a given state is returned and is the state parameter of the
\* URL, for an empty one a generated state is returned and used in the URL;
\* the URL carries every scope and the redirect URL.
C21_StateNeverEmpty ==
    authReq # Nil =>
        /\ AuthReq.expectedState # <<>>
        /\ AuthReq.state # <<>> => AuthReq.expectedState = AuthReq.state
        /\ AuthReq.state = <<>> => AuthReq.expectedState \in GeneratedStates
        /\ QueryGet(AuthReq.RawQuery, KeyState) = AuthReq.expectedState
        /\ CarriesScopesAndRedirect

\* C21 amended: a call that returns no error returns a state that is not
\* empty and is the state parameter of the URL, the given state when one was
\* given and a generated one else, and its URL carries every scope and the
\* redirect URL; a call with a given state returns no error; a call that
\* returns an error was given no state and returns the empty state.
C21_AuthRequestURL ==
    authReq # Nil =>
        /\ AuthReq.state # <<>> => AuthReq.err = NoErr
        /\ AuthReq.err = NoErr =>
              /\ AuthReq.expectedState # <<>>
              /\ AuthReq.state # <<>> => AuthReq.expectedState = AuthReq.state
              /\ AuthReq.state = <<>> => AuthReq.expectedState \in GeneratedStates
              /\ QueryGet(AuthReq.RawQuery, KeyState) = AuthReq.expectedState
              /\ CarriesScopesAndRedirect
        /\ AuthReq.err # NoErr =>
              AuthReq.state = <<>> /\ AuthReq.expectedState = <<>>

\* C21 witness: a call with two scopes and no state has returned a generated
\* state, which the URL carries escaped.
C21_Witness ==
    /\ authReq # Nil
    /\ AuthReq.state = <<>>
    /\ AuthReq.err = NoErr
    /\ Len(AuthReq.scopes) = 2
    /\ AuthReq.expectedState \in GeneratedStates
    /\ Contains(AuthReq.RawQuery, KeyState \o <<"=">> \o QueryEscape(AuthReq.expectedState))
    /\ QueryGet(AuthReq.RawQuery, KeyState) = AuthReq.expectedState

\* WithDemoMode() is among the options the client was created with.
CreatedWithDemoMode == \E i \in 1..Len(opts) : opts[i].kind = "WithDemoMode"

\* C22: the URL of a call that returned no error has the parameter mode=demo
\* exactly when the client was created with WithDemoMode, and has no mode
\* parameter else.
C22_DemoModeParam ==
    (authReq # Nil /\ AuthReq.err = NoErr) =>
        /\ QueryGet(AuthReq.RawQuery, KeyMode) = <<"d", "e", "m", "o">> <=> CreatedWithDemoMode
        /\ QueryHas(AuthReq.RawQuery, KeyMode) <=> CreatedWithDemoMode
        /\ Contains(AuthReq.RawQuery, KeyMode \o <<"=", "d", "e", "m", "o">>)
              <=> CreatedWithDemoMode

\* C22 witness: a client created with WithDemoMode has produced a URL with
\* mode=demo.
C22_Witness ==
    /\ authReq # Nil
    /\ AuthReq.err = NoErr
    /\ CreatedWithDemoMode
    /\ QueryGet(AuthReq.RawQuery, KeyMode) = <<"d", "e", "m", "o">>

\* The timeout of the last SetHTTPClientTimeout of an option list, the zero
\* duration when there is none.
LastTimeout(os) ==
    LET is == {i \in 1..Len(os) : os[i].kind = "SetHTTPClientTimeout"}
    IN IF is = {} THEN 0 ELSE os[CHOOSE i \in is : \A j \in is : j <= i].timeout

\* The option list with the options at i and i + 1 exchanged.
Swap(os, i) == [os EXCEPT ![i] = os[i + 1], ![i + 1] = os[i]]

\* C23: the HTTP client of the Client NewClient returns has the Timeout given
\* to (the last) SetHTTPClientTimeout, zero without one, and InsecureSkipVerify
\* true exactly when WithSkipSSLVerify was given, whatever the order of the
\* options; exchanging two neighbouring options of different kinds gives the
\* same Client.
C23_OptionsBeforeHttpClient ==
    client # Nil =>
        LET c == Deref(client) IN
        /\ c.HttpClient # Nil
        /\ Deref(c.HttpClient).Timeout = LastTimeout(opts)
        /\ Deref(c.HttpClient).InsecureSkipVerify
              = (\E i \in 1..Len(opts) : opts[i].kind = "WithSkipSSLVerify")
        /\ c.demoMode = CreatedWithDemoMode
        /\ \A i \in 1..(Len(opts) - 1) :
              opts[i].kind # opts[i + 1].kind =>
                  NewClient(c.clientID, c.redirectURL, Swap(opts, i)) = c

\* C23 witness: a Client created with SetHTTPClientTimeout(10 s) and then
\* WithSkipSSLVerify has both in its HTTP client.
C23_Witness ==
    /\ client # Nil
    /\ Len(opts) = 2
    /\ opts[1].kind = "SetHTTPClientTimeout" /\ opts[1].timeout = 10
    /\ opts[2].kind = "WithSkipSSLVerify"
    /\ Deref(Deref(client).HttpClient) = [Timeout |-> 10, InsecureSkipVerify |-> TRUE]

\* ------------------------------------------- properties of UpdateQuery

\* C24: the query UpdateQuery returns for the request of a Client fetch has
\* lastupdate and neither startdate nor enddate when LastUpdate is given,
\* whatever StartDate and EndDate are; without LastUpdate it has startdate
\* and enddate exactly for the ones given and no lastupdate; it has offset
\* exactly when Offset > 0.
C24_UpdateQueryKeys ==
    query # Nil =>
        LET q == Deref(query).q
            p == Deref(param)
        IN /\ p.LastUpdate # Nil =>
                 /\ "lastupdate" \in DOMAIN q
                 /\ q["lastupdate"] = FormatInt(Deref(p.LastUpdate))
                 /\ "startdate" \notin DOMAIN q
                 /\ "enddate" \notin DOMAIN q
           /\ p.LastUpdate = Nil =>
                 /\ "lastupdate" \notin DOMAIN q
                 /\ "startdate" \in DOMAIN q <=> p.StartDate # Nil
                 /\ "enddate" \in DOMAIN q <=> p.EndDate # Nil
                 /\ p.StartDate # Nil => q["startdate"] = FormatInt(Deref(p.StartDate))
                 /\ p.EndDate # Nil => q["enddate"] = FormatInt(Deref(p.EndDate))
           /\ "offset" \in DOMAIN q <=> p.Offset > 0

\* C24 witness: a GetWorkoutParam with StartDate, EndDate, LastUpdate and an
\* Offset of 25 has given a query with lastupdate and offset only.
C24_Witness ==
    /\ query # Nil
    /\ Deref(query).of = "GetWorkoutParam"
    /\ Deref(param).StartDate # Nil
    /\ Deref(param).EndDate # Nil
    /\ Deref(param).LastUpdate = Ptr(1700)
    /\ Deref(param).Offset = 25
    /\ DOMAIN Deref(query).q = {"action", "data_fields", "offset", "lastupdate"}
    /\ Deref(query).q["lastupdate"] = <<"1", "7", "0", "0">>
    /\ Deref(query).q["offset"] = <<"2", "5">>

\* ---------------------------------- properties of the measure helpers

\* The latest helper call.
TheConv == Deref(conv)

\* The measure and the group the latest DecimalValue or ToX call was made on.
ConvMeasure == groups[TheConv.g].Measures[TheConv.m]
ConvGroup == groups[TheConv.g]

\* Two fractions are the same number.
SameNumber(a, b) == a.num * b.den = b.num * a.den

\* C25: as documented at DecimalValue, the unit is the decimal location: a
\* measure with value 123 and unit 2 yields 1.23.
C25_DecimalValueAsDocumented ==
    (conv # Nil /\ TheConv.fn = "DecimalValue"
        /\ ConvMeasure.Value = 123 /\ ConvMeasure.Unit = 2) =>
            SameNumber(TheConv.result, [num |-> 123, den |-> 100])

\* The places <<g, m>> of the measures of type X in groups.
Places(X) ==
    UNION {{<<g, m>> : m \in {i \in 1..Len(groups[g].Measures) :
                                  groups[g].Measures[i].Type = TypeOf(X)}} :
           g \in 1..Len(groups)}

\* pl comes before ql in group order, then measure order.
PlaceBefore(pl, ql) == pl[1] < ql[1] \/ (pl[1] = ql[1] /\ pl[2] < ql[2])

\* The index in Xs() of the measure at place pl.
Rank(X, pl) == Cardinality({ql \in Places(X) : PlaceBefore(ql, pl)}) + 1

\* C29: ToX returns nil exactly when the measure's Type is not the type of X;
\* Xs() returns a list that is not nil, with one entry for each measure of
\* type X of all groups, in group order then measure order, each with the
\* value of its measure and the DeviceID and GroupID of its own group.
C29_ToXAndXs ==
    /\ (conv # Nil /\ TheConv.fn = "ToX") =>
          /\ TheConv.result = Nil <=> ConvMeasure.Type # TypeOf(TheConv.X)
          /\ TheConv.result # Nil =>
                /\ Deref(TheConv.result).of = TheConv.X
                /\ Deref(TheConv.result).value = DecimalValue(ConvMeasure)
                /\ Deref(TheConv.result).GroupID
                      = IF TheConv.withGroup THEN ConvGroup.GroupID ELSE 0
                /\ Deref(TheConv.result).DeviceID
                      = IF TheConv.withGroup THEN ConvGroup.DeviceID ELSE ""
    /\ (conv # Nil /\ TheConv.fn = "Xs") =>
          /\ TheConv.result # Nil
          /\ Len(Deref(TheConv.result)) = Cardinality(Places(TheConv.X))
          /\ \A pl \in Places(TheConv.X) :
                LET w == Deref(Deref(TheConv.result)[Rank(TheConv.X, pl)])
                    g == groups[pl[1]]
                IN /\ w.of = TheConv.X
                   /\ w.value = DecimalValue(g.Measures[pl[2]])
                   /\ w.GroupID = g.GroupID
                   /\ w.DeviceID = g.DeviceID

\* C29 witness: Heights() of two groups, the first with a height after a
\* weight and the second with a height first, has returned the two heights,
\* each with the GroupID of its group.
C29_Witness ==
    /\ conv # Nil
    /\ TheConv.fn = "Xs"
    /\ TheConv.X = "Height"
    /\ Len(groups) = 2
    /\ groups[1].Measures = <<Wm2, Hm2, W2>>
    /\ groups[2].Measures = <<Hm2, Other>>
    /\ Len(Deref(TheConv.result)) = 2
    /\ Deref(Deref(TheConv.result)[1]).GroupID = 11
    /\ Deref(Deref(TheConv.result)[2]).GroupID = 12

\* C30: every ToX gives, for one group, the Created instant that ToWeight
\* gives for it.
C30_SameCreated ==
    (conv # Nil /\ TheConv.fn = "ToX" /\ TheConv.withGroup /\ TheConv.result # Nil) =>
        Deref(TheConv.result).Created = CreatedTime("Weight", ConvGroup.Created)

====
